---- MODULE Spec2Model ----
(***************************************************************************)
(* The local work loop of collect_signals (localworker.WorkLoop.Run): an   *)
(* input of repository identifiers is cut into shards, every shard is      *)
(* handed to a worker with a bounded number of attempts, and the progress  *)
(* is kept in a state file so that a terminated run can be resumed.        *)
(***************************************************************************)
EXTENDS Integers, Sequences, FiniteSets, TLC

\* ------------------------------------------------------------------ bounds
MaxIds == 3
MaxShardSize == 2
MaxCkptShard == 2
MaxRestarts == 1
MaxLines == 3
MaxSources == 2
MaxItems == 3
MaxCloses == 2
MaxType == 4

\* -------------------------------------------------------------- constants
maxAttempts == 7

VARIABLES
    input,      \* l.input: the repository identifiers, in file order
    shardSize,  \* l.shardSize
    ckpt,       \* the state file (l.stateFilename): what Save last wrote
    produced,   \* primary bucket: how often each result blob was produced
    meta,       \* primary bucket: completion metadata records
    rawMeta,    \* raw bucket: completion metadata records
    restarts,   \* how many times Run was started again; also the clock
    pc,         \* position of Run
    s,          \* the runState held in memory
    cursor,     \* identifiers the shard iterator has consumed
    iterErr,    \* shards.Err() != nil
    shard,      \* the local counter of the restore loop
    req,        \* the request built for the current shard
    err,        \* what Run returned ("nil" for no error, "" while running)
    ioErr,      \* the state file operation that failed in this run, if any
    startShard, \* s.Shard as loaded at the start of this run
    built,      \* the requests built in this run, in order
    calls,      \* the requests handed to worker.Process in this run
    posts,      \* number of worker.PostProcess calls in this run
    fails,      \* failed process steps on the current shard in this run
    outcomes,   \* how each shard this run moved past was left
    att,        \* attempts and PostProcess calls on the shard the state file names
    \* collect_signals main: the loop over the lines of the input
    mLines,     \* what happens to each input line (parse, collect, write)
    mPos,       \* lines the scanner has handed out
    mRows,      \* the line numbers of the rows written, in order
    mExit,      \* "running", or how main ended
    \* the source registry of the collector
    reg,        \* registry.ss: the sources held, in order
    regDirect,  \* the sources were put in place directly, not by Register
    regOut,     \* the outcome of the last registry operation
    \* the input iterators (sliceIter, scannerIter)
    itKind,     \* "slice" or "scanner"
    itValues,   \* the source: the values of the slice, or the bytes of the text
    itFailAt,   \* bytes the reader delivers before it fails; -1: never fails
    itPos,      \* values handed out, or bytes consumed, so far
    itItem,     \* what Item() returns
    itGot,      \* the items returned after each true Next(), in order
    itLast,     \* the result of the last Next(): "none", "true", "false"
    itErr,      \* what Err() returns: "nil" or the reader's error
    itCloser,   \* the underlying closer: what it returns, how often called
    itClose,    \* Close(): how often called, what it returned last
    \* a marker.Type and its text form
    mkT,        \* the marker.Type variable the methods are called on
    mkFrom,     \* the Type the last MarshalText was called on
    mkText,     \* the text the last MarshalText returned
    mkIn,       \* the text the last UnmarshalText was given
    mkErr,      \* the error of the last call: "nil" or "err"
    mkOp        \* the last call: "none", "set", "MarshalText", "UnmarshalText"

\* The variables of the work loop.
runVars == <<input, shardSize, ckpt, produced, meta, rawMeta, restarts, pc, s,
             cursor, iterErr, shard, req, err, ioErr, startShard, built, calls,
             posts, fails, outcomes, att>>

mainVars == <<mLines, mPos, mRows, mExit>>

regVars == <<reg, regDirect, regOut>>

iterVars == <<itKind, itValues, itFailAt, itPos, itItem, itGot, itLast, itErr,
              itCloser, itClose>>

\* Everything but the work loop.
markVars == <<mkT, mkFrom, mkText, mkIn, mkErr, mkOp>>

others == <<mainVars, regVars, iterVars, markVars>>

vars == <<runVars, others>>

persistent == <<input, shardSize, ckpt, produced, meta, rawMeta>>

\* ------------------------------------------------------------- data types
Min(a, b) == IF a < b THEN a ELSE b

NoCkpt == [exists |-> FALSE, Shard |-> 0, Attempt |-> 0, JobTime |-> 0]

NoReq == [ids |-> <<>>, shard |-> -1, jobTime |-> -1]

NoAtt == [base |-> 0, started |-> 0, finished |-> 0, lost |-> 0, posted |-> 0]

\* time.Now() when a run starts: later for every later run.
now == restarts + 1

\* The number of shards iterator.Batch cuts the input into.
NumShards == (Len(input) + shardSize - 1) \div shardSize

\* The identifiers of the input's shard number i (from 0).
ShardOf(i) == SubSeq(input, i * shardSize + 1, Min((i + 1) * shardSize, Len(input)))

\* batchIter.nextBatch: up to shardSize identifiers from the cursor on.
nextBatch == SubSeq(input, cursor + 1, Min(cursor + shardSize, Len(input)))

\* loadState: the saved state, or a fresh one stamped with the current time.
loadState ==
    IF ckpt.exists
    THEN [Shard |-> ckpt.Shard, Attempt |-> ckpt.Attempt, JobTime |-> ckpt.JobTime]
    ELSE [Shard |-> 0, Attempt |-> 0, JobTime |-> now]

\* runState.Save: the state file holds the in-memory state.
Saved(st) == [exists |-> TRUE, Shard |-> st.Shard, Attempt |-> st.Attempt,
              JobTime |-> st.JobTime]

makeRequest(ids, shardNum, jobTime) ==
    [ids |-> ids, shard |-> shardNum, jobTime |-> jobTime]

\* worker.ResultFilename: the blob a request's result is stored under.
ResultKey(r) == <<r.jobTime, r.shard>>

Produced(r) == IF ResultKey(r) \in DOMAIN produced THEN produced[ResultKey(r)] ELSE 0

resultExists(r) == Produced(r) > 0

\* writeMetadata: the record of jobTime in a bucket is (re)written.
writeMetadata(bucket, shardNum, jobTime) ==
    {m \in bucket : m.jobTime # jobTime} \cup {[jobTime |-> jobTime, shards |-> shardNum]}

\* How the loop left a shard: after a success ("ok"), after maxAttempts failed
\* process steps in this run ("failed"), with the attempt counter at
\* maxAttempts after fewer failures in this run ("exhausted": attempts of an
\* earlier run are counted in), with no process step at all in this run
\* ("passed"), or before the attempt counter reached maxAttempts ("early").
Outcome(ok, attempt, failed) ==
    IF ok THEN "ok"
    ELSE IF attempt < maxAttempts THEN "early"
    ELSE IF failed >= maxAttempts THEN "failed"
    ELSE IF failed > 0 THEN "exhausted"
    ELSE "passed"

\* ------------------------------------------------- the parts not running
\* No registry operation has been made.
NoSource == [id |-> 0, ns |-> "", sup |-> {}]

NoOut == [op |-> "none", src |-> NoSource, repo |-> "none", bad |-> {},
          panic |-> FALSE, err |-> "nil", sets |-> <<>>, srcs |-> <<>>]

IdleMain ==
    /\ mLines = <<>>
    /\ mPos = 0
    /\ mRows = <<>>
    /\ mExit = "idle"

IdleReg ==
    /\ reg = <<>>
    /\ regDirect = FALSE
    /\ regOut = NoOut

IdleIter ==
    /\ itKind = "none"
    /\ itValues = <<>>
    /\ itFailAt = -1
    /\ itPos = 0
    /\ itItem = 0
    /\ itGot = <<>>
    /\ itLast = "none"
    /\ itErr = "nil"
    /\ itCloser = [result |-> "nil", calls |-> 0]
    /\ itClose = [calls |-> 0, result |-> "nil"]

IdleMarker ==
    /\ mkT = 0
    /\ mkFrom = 0
    /\ mkText = ""
    /\ mkIn = ""
    /\ mkErr = "nil"
    /\ mkOp = "idle"

IdleRun ==
    /\ input = <<>>
    /\ shardSize = 1
    /\ ckpt = NoCkpt
    /\ produced = <<>>
    /\ meta = {}
    /\ rawMeta = {}
    /\ restarts = 0
    /\ pc = "idle"
    /\ s = [Shard |-> 0, Attempt |-> 0, JobTime |-> 0]
    /\ cursor = 0
    /\ iterErr = FALSE
    /\ shard = 0
    /\ req = NoReq
    /\ err = ""
    /\ ioErr = "none"
    /\ startShard = 0
    /\ built = <<>>
    /\ calls = {}
    /\ posts = 0
    /\ fails = 0
    /\ outcomes = <<>>
    /\ att = NoAtt

\* ------------------------------------------------------------------- Init
Init ==
    /\ \E n \in 0..MaxIds : input = [i \in 1..n |-> i]
    /\ shardSize \in 1..MaxShardSize
    /\ \/ ckpt = NoCkpt
       \/ \E sh \in 0..MaxCkptShard, a \in 0..maxAttempts :
            ckpt = [exists |-> TRUE, Shard |-> sh, Attempt |-> a, JobTime |-> 0]
    /\ produced = <<>>
    /\ meta = {}
    /\ rawMeta = {}
    /\ restarts = 0
    /\ pc = "start"
    /\ s = [Shard |-> 0, Attempt |-> 0, JobTime |-> 0]
    /\ cursor = 0
    /\ iterErr = FALSE
    /\ shard = 0
    /\ req = NoReq
    /\ err = ""
    /\ ioErr = "none"
    /\ startShard = 0
    /\ built = <<>>
    /\ calls = {}
    /\ posts = 0
    /\ fails = 0
    /\ outcomes = <<>>
    /\ att = [NoAtt EXCEPT !.base = ckpt.Attempt]
    /\ IdleMain
    /\ IdleReg
    /\ IdleIter
    /\ IdleMarker

\* Run returns e.
Return(e) ==
    /\ pc' = "returned"
    /\ err' = e

\* ---------------------------------------------------------------- actions

\* Run, lines 150-161: load the state and create the shard iterator.
LoadState ==
    /\ pc = "start"
    /\ \/ /\ Return("loadState")
          /\ ioErr' = "load"
          /\ UNCHANGED <<s, startShard>>
       \/ /\ s' = loadState
          /\ startShard' = loadState.Shard
          /\ pc' = IF loadState.Shard > 0 THEN "restore" ELSE "loop"
          /\ UNCHANGED <<err, ioErr>>
    /\ UNCHANGED <<persistent, restarts, cursor, iterErr, shard, req, built,
                   calls, posts, fails, outcomes, att>>
    /\ UNCHANGED others

\* RestoreNext with the fast-forward loop stopping one shard too late.
RestoreNextOneMore ==
    /\ pc = "restore"
    /\ \/ /\ iterErr' = TRUE
          /\ pc' = "restoreCheck"
          /\ UNCHANGED <<cursor, shard>>
       \/ /\ cursor >= Len(input)
          /\ pc' = "restoreCheck"
          /\ UNCHANGED <<cursor, shard, iterErr>>
       \/ /\ cursor < Len(input)
          /\ cursor' = cursor + Len(nextBatch)
          /\ IF shard >= s.Shard
             THEN pc' = "restoreCheck" /\ shard' = shard
             ELSE pc' = "restore" /\ shard' = shard + 1
          /\ UNCHANGED iterErr
    /\ UNCHANGED <<persistent, restarts, s, req, err, ioErr, startShard, built,
                   calls, posts, fails, outcomes, att>>
    /\ UNCHANGED others

\* Run, lines 164-170: one turn of the fast-forward loop.
RestoreNext ==
    /\ pc = "restore"
    /\ \/ \* shards.Next() is false: the reader failed
          /\ iterErr' = TRUE
          /\ pc' = "restoreCheck"
          /\ UNCHANGED <<cursor, shard>>
       \/ \* shards.Next() is false: the input is exhausted
          /\ cursor >= Len(input)
          /\ pc' = "restoreCheck"
          /\ UNCHANGED <<cursor, shard, iterErr>>
       \/ \* shards.Next() is true
          /\ cursor < Len(input)
          /\ cursor' = cursor + Len(nextBatch)
          /\ IF shard >= s.Shard - 1
             THEN pc' = "restoreCheck" /\ shard' = shard
             ELSE pc' = "restore" /\ shard' = shard + 1
          /\ UNCHANGED iterErr
    /\ UNCHANGED <<persistent, restarts, s, req, err, ioErr, startShard, built,
                   calls, posts, fails, outcomes, att>>
    /\ UNCHANGED others

\* Run, lines 171-179: the checks after the fast-forward loop.
RestoreCheck ==
    /\ pc = "restoreCheck"
    /\ IF iterErr
       THEN Return("restore state iterator")
       ELSE IF shard < s.Shard - 1
            THEN Return("restore state shard mismatch")
            ELSE pc' = "loop" /\ err' = err
    /\ UNCHANGED <<persistent, restarts, s, cursor, iterErr, shard, req, ioErr,
                   startShard, built, calls, posts, fails, outcomes, att>>
    /\ UNCHANGED others

\* ShardsNext with the request stamped with the time of the current run.
ShardsNextStampsNow ==
    /\ pc = "loop"
    /\ cursor < Len(input)
    /\ cursor' = cursor + Len(nextBatch)
    /\ req' = makeRequest(nextBatch, s.Shard, now)
    /\ built' = Append(built, req')
    /\ fails' = 0
    /\ pc' = "attempt"
    /\ UNCHANGED <<persistent, restarts, s, iterErr, shard, err, ioErr,
                   startShard, calls, posts, outcomes, att>>
    /\ UNCHANGED others

\* Run, lines 181-185: the next shard is read and its request built.
ShardsNext ==
    /\ pc = "loop"
    /\ cursor < Len(input)
    /\ cursor' = cursor + Len(nextBatch)
    /\ req' = makeRequest(nextBatch, s.Shard, s.JobTime)
    /\ built' = Append(built, req')
    /\ fails' = 0
    /\ pc' = "attempt"
    /\ UNCHANGED <<persistent, restarts, s, iterErr, shard, err, ioErr,
                   startShard, calls, posts, outcomes, att>>
    /\ UNCHANGED others

\* Run, lines 181 and 216-218: shards.Next() is false, the loop is left.
LoopExit ==
    /\ pc = "loop"
    /\ \/ /\ iterErr' = TRUE
          /\ Return("iterator")
       \/ /\ cursor >= Len(input)
          /\ pc' = "meta1"
          /\ UNCHANGED <<iterErr, err>>
    /\ UNCHANGED <<persistent, restarts, s, cursor, shard, req, ioErr,
                   startShard, built, calls, posts, fails, outcomes, att>>
    /\ UNCHANGED others

\* The attempt record after Save wrote st over the state file.
AttAfterSave(st) ==
    IF ckpt.exists /\ ckpt.Shard = st.Shard /\ ckpt.JobTime = st.JobTime
    THEN att
    ELSE NoAtt

\* AttemptSave with the state saved before the attempt is counted.
AttemptSaveStale ==
    /\ pc = "attempt"
    /\ s.Attempt < maxAttempts
    /\ s' = [s EXCEPT !.Attempt = s.Attempt + 1]
    /\ \/ /\ ckpt' = Saved(s)
          /\ att' = AttAfterSave(s)
          /\ pc' = "check"
          /\ UNCHANGED <<err, ioErr>>
       \/ /\ Return("saving state")
          /\ ioErr' = "save"
          /\ UNCHANGED <<ckpt, att>>
    /\ UNCHANGED <<input, shardSize, produced, meta, rawMeta, restarts, cursor,
                   iterErr, shard, req, startShard, built, calls, posts, fails,
                   outcomes>>
    /\ UNCHANGED others

\* AttemptSave with a failed Save logged and the attempt made all the same.
AttemptSaveIgnoreError ==
    /\ pc = "attempt"
    /\ s.Attempt < maxAttempts
    /\ s' = [s EXCEPT !.Attempt = s.Attempt + 1]
    /\ \/ /\ ckpt' = Saved(s')
          /\ att' = AttAfterSave(s')
          /\ pc' = "check"
          /\ UNCHANGED <<err, ioErr>>
       \/ /\ pc' = "check"
          /\ ioErr' = "save"
          /\ UNCHANGED <<ckpt, att, err>>
    /\ UNCHANGED <<input, shardSize, produced, meta, rawMeta, restarts, cursor,
                   iterErr, shard, req, startShard, built, calls, posts, fails,
                   outcomes>>
    /\ UNCHANGED others

\* AttemptSave with the bound on the attempts off by one.
AttemptSaveOneMore ==
    /\ pc = "attempt"
    /\ s.Attempt <= maxAttempts
    /\ s' = [s EXCEPT !.Attempt = s.Attempt + 1]
    /\ \/ /\ ckpt' = Saved(s')
          /\ att' = AttAfterSave(s')
          /\ pc' = "check"
          /\ UNCHANGED <<err, ioErr>>
       \/ /\ Return("saving state")
          /\ ioErr' = "save"
          /\ UNCHANGED <<ckpt, att>>
    /\ UNCHANGED <<input, shardSize, produced, meta, rawMeta, restarts, cursor,
                   iterErr, shard, req, startShard, built, calls, posts, fails,
                   outcomes>>
    /\ UNCHANGED others

\* Run, lines 187-193: count the attempt and save the state before the work.
AttemptSave ==
    /\ pc = "attempt"
    /\ s.Attempt < maxAttempts
    /\ s' = [s EXCEPT !.Attempt = s.Attempt + 1]
    /\ \/ /\ ckpt' = Saved(s')
          /\ att' = AttAfterSave(s')
          /\ pc' = "check"
          /\ UNCHANGED <<err, ioErr>>
       \/ /\ Return("saving state")
          /\ ioErr' = "save"
          /\ UNCHANGED <<ckpt, att>>
    /\ UNCHANGED <<input, shardSize, produced, meta, rawMeta, restarts, cursor,
                   iterErr, shard, req, startShard, built, calls, posts, fails,
                   outcomes>>
    /\ UNCHANGED others

\* GiveUp as a fatal error: Run returns when the attempts are used up.
GiveUpHalts ==
    /\ pc = "attempt"
    /\ s.Attempt >= maxAttempts
    /\ Return("max attempts")
    /\ UNCHANGED <<persistent, restarts, s, cursor, iterErr, shard, req, ioErr,
                   startShard, built, calls, posts, fails, outcomes, att>>
    /\ UNCHANGED others

\* GiveUp one attempt early (the loop bound off by one).
GiveUpEarly ==
    /\ pc = "attempt"
    /\ s.Attempt >= maxAttempts - 1
    /\ outcomes' = Append(outcomes, Outcome(FALSE, s.Attempt, fails))
    /\ s' = [s EXCEPT !.Attempt = 0, !.Shard = s.Shard + 1]
    /\ pc' = "loop"
    /\ UNCHANGED <<persistent, restarts, cursor, iterErr, shard, req, err, ioErr,
                   startShard, built, calls, posts, fails, att>>
    /\ UNCHANGED others

\* GiveUp with the attempt counter not reset for the next shard.
GiveUpKeepsAttempt ==
    /\ pc = "attempt"
    /\ s.Attempt >= maxAttempts
    /\ outcomes' = Append(outcomes, Outcome(FALSE, s.Attempt, fails))
    /\ s' = [s EXCEPT !.Shard = s.Shard + 1]
    /\ pc' = "loop"
    /\ UNCHANGED <<persistent, restarts, cursor, iterErr, shard, req, err, ioErr,
                   startShard, built, calls, posts, fails, att>>
    /\ UNCHANGED others

\* GiveUp starting the shard over: the counter is reset and the shard retried.
GiveUpStartsOver ==
    /\ pc = "attempt"
    /\ s.Attempt >= maxAttempts
    /\ s' = [s EXCEPT !.Attempt = 0]
    /\ fails' = 0
    /\ att' = NoAtt
    /\ pc' = "attempt"
    /\ UNCHANGED <<persistent, restarts, cursor, iterErr, shard, req, err, ioErr,
                   startShard, built, calls, posts, outcomes>>
    /\ UNCHANGED others

\* Run, lines 187 and 211-213: the attempts are used up, the loop moves on.
GiveUp ==
    /\ pc = "attempt"
    /\ s.Attempt >= maxAttempts
    /\ outcomes' = Append(outcomes, Outcome(FALSE, s.Attempt, fails))
    /\ s' = [s EXCEPT !.Attempt = 0, !.Shard = s.Shard + 1]
    /\ pc' = "loop"
    /\ UNCHANGED <<persistent, restarts, cursor, iterErr, shard, req, err, ioErr,
                   startShard, built, calls, posts, fails, att>>
    /\ UNCHANGED others

\* ResultExists with the answer of the pre-check not looked at.
ResultExistsIgnored ==
    /\ pc = "check"
    /\ \/ /\ pc' = "attempt"
          /\ fails' = fails + 1
          /\ att' = [att EXCEPT !.started = att.started + 1,
                                !.finished = att.finished + 1]
       \/ /\ pc' = "work"
          /\ fails' = fails
          /\ att' = [att EXCEPT !.started = att.started + 1]
    /\ UNCHANGED <<persistent, restarts, s, cursor, iterErr, shard, req, err,
                   ioErr, startShard, built, calls, posts, outcomes>>
    /\ UNCHANGED others

\* process, lines 128-137 (and Run, 195-204): the pre-check of the destination.
ResultExists ==
    /\ pc = "check"
    /\ \/ \* the check fails: the attempt failed
          /\ pc' = "attempt"
          /\ fails' = fails + 1
          /\ att' = [att EXCEPT !.started = att.started + 1,
                                !.finished = att.finished + 1]
       \/ /\ resultExists(req)
          /\ pc' = "post"
          /\ fails' = fails
          /\ att' = [att EXCEPT !.started = att.started + 1,
                                !.finished = att.finished + 1]
       \/ /\ ~resultExists(req)
          /\ pc' = "work"
          /\ fails' = fails
          /\ att' = [att EXCEPT !.started = att.started + 1]
    /\ UNCHANGED <<persistent, restarts, s, cursor, iterErr, shard, req, err,
                   ioErr, startShard, built, calls, posts, outcomes>>
    /\ UNCHANGED others

\* WorkerProcess with a failed step sending the loop on to the next batch.
WorkerProcessRetriesNextBatch ==
    /\ pc = "work"
    /\ calls' = calls \cup {req}
    /\ att' = [att EXCEPT !.finished = att.finished + 1]
    /\ \/ /\ produced' = (ResultKey(req) :> (Produced(req) + 1)) @@ produced
          /\ pc' = "post"
          /\ fails' = fails
       \/ /\ pc' = IF s.Attempt < maxAttempts THEN "loop" ELSE "attempt"
          /\ fails' = fails + 1
          /\ UNCHANGED produced
    /\ UNCHANGED <<input, shardSize, ckpt, meta, rawMeta, restarts, s, cursor,
                   iterErr, shard, req, err, ioErr, startShard, built, posts,
                   outcomes>>
    /\ UNCHANGED others

\* WorkerProcess with a failed step followed by PostProcess all the same.
WorkerProcessPostsAnyway ==
    /\ pc = "work"
    /\ calls' = calls \cup {req}
    /\ att' = [att EXCEPT !.finished = att.finished + 1]
    /\ \/ /\ produced' = (ResultKey(req) :> (Produced(req) + 1)) @@ produced
          /\ pc' = "post"
          /\ fails' = fails
       \/ /\ pc' = "post"
          /\ fails' = fails + 1
          /\ UNCHANGED produced
    /\ UNCHANGED <<input, shardSize, ckpt, meta, rawMeta, restarts, s, cursor,
                   iterErr, shard, req, err, ioErr, startShard, built, posts,
                   outcomes>>
    /\ UNCHANGED others

\* process, lines 139-143 (and Run, 195-204): the worker processes the request.
WorkerProcess ==
    /\ pc = "work"
    /\ calls' = calls \cup {req}
    /\ att' = [att EXCEPT !.finished = att.finished + 1]
    /\ \/ /\ produced' = (ResultKey(req) :> (Produced(req) + 1)) @@ produced
          /\ pc' = "post"
          /\ fails' = fails
       \/ \* the worker fails: the result is written last, so there is none
          /\ pc' = "attempt"
          /\ fails' = fails + 1
          /\ UNCHANGED produced
    /\ UNCHANGED <<input, shardSize, ckpt, meta, rawMeta, restarts, s, cursor,
                   iterErr, shard, req, err, ioErr, startShard, built, posts,
                   outcomes>>
    /\ UNCHANGED others

\* PostProcess with the shard number left as it is.
PostProcessNoAdvance ==
    /\ pc = "post"
    /\ posts' = posts + 1
    /\ outcomes' = Append(outcomes, Outcome(TRUE, s.Attempt, fails))
    /\ s' = [s EXCEPT !.Attempt = 0]
    /\ att' = [att EXCEPT !.posted = att.posted + 1]
    /\ pc' = "loop"
    /\ UNCHANGED <<persistent, restarts, cursor, iterErr, shard, req, err, ioErr,
                   startShard, built, calls, fails>>
    /\ UNCHANGED others

\* PostProcess with the advanced state saved at once.
PostProcessSaves ==
    /\ pc = "post"
    /\ posts' = posts + 1
    /\ outcomes' = Append(outcomes, Outcome(TRUE, s.Attempt, fails))
    /\ s' = [s EXCEPT !.Attempt = 0, !.Shard = s.Shard + 1]
    /\ ckpt' = Saved(s')
    /\ att' = NoAtt
    /\ pc' = "loop"
    /\ UNCHANGED <<input, shardSize, produced, meta, rawMeta, restarts, cursor,
                   iterErr, shard, req, err, ioErr, startShard, built, calls,
                   fails>>
    /\ UNCHANGED others

\* Run, lines 207-213: after a success, PostProcess and on to the next shard.
PostProcess ==
    /\ pc = "post"
    /\ posts' = posts + 1
    /\ outcomes' = Append(outcomes, Outcome(TRUE, s.Attempt, fails))
    /\ s' = [s EXCEPT !.Attempt = 0, !.Shard = s.Shard + 1]
    /\ att' = [att EXCEPT !.posted = att.posted + 1]
    /\ pc' = "loop"
    /\ UNCHANGED <<persistent, restarts, cursor, iterErr, shard, req, err, ioErr,
                   startShard, built, calls, fails>>
    /\ UNCHANGED others

\* WriteMetadata recording the number of shards this run went through.
WriteMetadataCountsThisRun ==
    /\ pc = "meta1"
    /\ \/ /\ meta' = writeMetadata(meta, Len(outcomes), s.JobTime)
          /\ pc' = "meta2"
          /\ UNCHANGED err
       \/ /\ Return("writing metadata")
          /\ UNCHANGED meta
    /\ UNCHANGED <<input, shardSize, ckpt, produced, rawMeta, restarts, s,
                   cursor, iterErr, shard, req, ioErr, startShard, built, calls,
                   posts, fails, outcomes, att>>
    /\ UNCHANGED others

\* WriteMetadata with a failed write logged and Run going on.
WriteMetadataIgnoreError ==
    /\ pc = "meta1"
    /\ \/ /\ meta' = writeMetadata(meta, s.Shard, s.JobTime)
          /\ pc' = "meta2"
          /\ UNCHANGED err
       \/ /\ pc' = "meta2"
          /\ UNCHANGED <<meta, err>>
    /\ UNCHANGED <<input, shardSize, ckpt, produced, rawMeta, restarts, s,
                   cursor, iterErr, shard, req, ioErr, startShard, built, calls,
                   posts, fails, outcomes, att>>
    /\ UNCHANGED others

\* Run, lines 220-223: the metadata goes to the primary bucket.
WriteMetadata ==
    /\ pc = "meta1"
    /\ \/ /\ meta' = writeMetadata(meta, s.Shard, s.JobTime)
          /\ pc' = "meta2"
          /\ UNCHANGED err
       \/ /\ Return("writing metadata")
          /\ UNCHANGED meta
    /\ UNCHANGED <<input, shardSize, ckpt, produced, rawMeta, restarts, s,
                   cursor, iterErr, shard, req, ioErr, startShard, built, calls,
                   posts, fails, outcomes, att>>
    /\ UNCHANGED others

\* WriteRawMetadata writing to the primary bucket a second time.
WriteRawMetadataToPrimary ==
    /\ pc = "meta2"
    /\ \/ /\ meta' = writeMetadata(meta, s.Shard, s.JobTime)
          /\ pc' = "clear"
          /\ UNCHANGED <<err, rawMeta>>
       \/ /\ Return("writing metdata to raw")
          /\ UNCHANGED <<meta, rawMeta>>
    /\ UNCHANGED <<input, shardSize, ckpt, produced, restarts, s, cursor,
                   iterErr, shard, req, ioErr, startShard, built, calls, posts,
                   fails, outcomes, att>>
    /\ UNCHANGED others

\* Run, lines 224-226: the metadata goes to the raw bucket.
WriteRawMetadata ==
    /\ pc = "meta2"
    /\ \/ /\ rawMeta' = writeMetadata(rawMeta, s.Shard, s.JobTime)
          /\ pc' = "clear"
          /\ UNCHANGED err
       \/ /\ Return("writing metdata to raw")
          /\ UNCHANGED rawMeta
    /\ UNCHANGED <<input, shardSize, ckpt, produced, meta, restarts, s, cursor,
                   iterErr, shard, req, ioErr, startShard, built, calls, posts,
                   fails, outcomes, att>>
    /\ UNCHANGED others

\* Run, lines 228-231: the state file is removed and Run returns nil.
ClearState ==
    /\ pc = "clear"
    /\ \/ /\ ckpt' = NoCkpt
          /\ att' = NoAtt
          /\ Return("nil")
          /\ UNCHANGED ioErr
       \/ /\ Return("clearing state")
          /\ ioErr' = "clear"
          /\ UNCHANGED <<ckpt, att>>
    /\ UNCHANGED <<input, shardSize, produced, meta, rawMeta, restarts, s,
                   cursor, iterErr, shard, req, startShard, built, calls, posts,
                   fails, outcomes>>
    /\ UNCHANGED others

\* A new process: nothing of the old one is left but what it stored.
Fresh ==
    /\ pc' = "start"
    /\ restarts' = restarts + 1
    /\ s' = [Shard |-> 0, Attempt |-> 0, JobTime |-> 0]
    /\ cursor' = 0
    /\ iterErr' = FALSE
    /\ shard' = 0
    /\ req' = NoReq
    /\ err' = ""
    /\ ioErr' = "none"
    /\ startShard' = 0
    /\ built' = <<>>
    /\ calls' = {}
    /\ posts' = 0
    /\ fails' = 0
    /\ outcomes' = <<>>

\* The worker is terminated in the middle of Run and started again.
Crash ==
    /\ pc \notin {"start", "returned"}
    /\ restarts < MaxRestarts
    /\ Fresh
    /\ IF pc = "work"
       THEN \/ UNCHANGED produced
            \/ produced' = (ResultKey(req) :> (Produced(req) + 1)) @@ produced
       ELSE UNCHANGED produced
    /\ att' = IF pc \in {"check", "work"}
              THEN [att EXCEPT !.lost = att.lost + 1]
              ELSE att
    /\ UNCHANGED <<input, shardSize, ckpt, meta, rawMeta>>
    /\ UNCHANGED others

\* Run has returned and the job is started again.
Rerun ==
    /\ pc = "returned"
    /\ restarts < MaxRestarts
    /\ Fresh
    /\ UNCHANGED <<persistent, att>>
    /\ UNCHANGED others

Next ==
    \/ LoadState
    \/ RestoreNext
    \/ RestoreCheck
    \/ ShardsNext
    \/ LoopExit
    \/ AttemptSave
    \/ GiveUp
    \/ ResultExists
    \/ WorkerProcess
    \/ PostProcess
    \/ WriteMetadata
    \/ WriteRawMetadata
    \/ ClearState
    \/ Crash
    \/ Rerun

Spec == Init /\ [][Next]_vars

\* One step of Run.
RunStep ==
    \/ LoadState
    \/ RestoreNext
    \/ RestoreCheck
    \/ ShardsNext
    \/ LoopExit
    \/ AttemptSave
    \/ GiveUp
    \/ ResultExists
    \/ WorkerProcess
    \/ PostProcess
    \/ WriteMetadata
    \/ WriteRawMetadata
    \/ ClearState

\* One run of Run that is not interrupted: while Run has not returned it
\* takes its next step, whatever the worker and the stores answer.
SpecRun == Init /\ [][RunStep]_vars /\ WF_vars(RunStep)

\* ------------------------------------------- collect_signals: main's loop
\* What can happen to one input line: its URL does not parse ("badURL"),
\* Collect returns ErrUncollectableRepo ("uncollectable") or another error
\* ("collectErr"), WriteSignals fails ("writeErr"), or the row is written.
LineKinds == {"ok", "uncollectable", "collectErr", "badURL", "writeErr"}

InitMain ==
    /\ \E n \in 0..MaxLines : mLines \in [1..n -> LineKinds]
    /\ mPos = 0
    /\ mRows = <<>>
    /\ mExit = "running"
    /\ IdleRun
    /\ IdleReg
    /\ IdleIter
    /\ IdleMarker

\* main, lines 185-231: one turn of the loop over the input lines.
MainLine ==
    /\ mExit = "running"
    /\ mPos < Len(mLines)
    /\ mPos' = mPos + 1
    /\ LET kind == mLines[mPos + 1] IN
        /\ mExit' = CASE kind = "badURL" -> "exit1"
                      [] kind = "uncollectable" -> "done"
                      [] kind = "collectErr" -> "exit1"
                      [] kind = "writeErr" -> "exit1"
                      [] OTHER -> "running"
        /\ mRows' = IF kind = "ok" THEN Append(mRows, mPos + 1) ELSE mRows
    /\ UNCHANGED <<mLines, runVars, regVars, iterVars, markVars>>

\* main, lines 185 and 232-240: the scanner has no more lines.
MainEnd ==
    /\ mExit = "running"
    /\ \/ /\ mPos = Len(mLines)
          /\ mExit' = "done"
       \/ \* scanner.Err() is not nil
          mExit' = "exit2"
    /\ UNCHANGED <<mLines, mPos, mRows, runVars, regVars, iterVars, markVars>>

NextMain ==
    \/ MainLine
    \/ MainEnd

SpecMain == InitMain /\ [][NextMain]_vars

\* ------------------------------------------------ collector: the registry
\* The namespaces a source's Set may report: two valid ones, and two that
\* signal.ValidateSet rejects (an empty one and one with a reserved character).
Namespaces == {"a", "b", "", "!"}

Repos == {"r1", "r2"}

\* The source objects that answer alike: the held sources of a registry are
\* compared as objects, not by what they answer. There are as many as a
\* registry can hold.
SourceIds == 1..MaxSources

\* A source: the object, the namespace of its Sets and the repositories it
\* supports. Two sources that agree in namespace and support and differ in id
\* are two objects.
Sources == [id : SourceIds, ns : Namespaces, sup : SUBSET Repos]

\* The sources a caller can hand to the registry: a held source, or a new
\* object. Objects that answer alike are numbered as they come, so a new one
\* has the first id that no held source like it has.
Offered ==
    {src \in Sources :
        \A k \in 1..(src.id - 1) :
            \E i \in 1..Len(reg) : reg[i] = [src EXCEPT !.id = k]}

\* signal.ValidateSet, as far as the namespace goes.
ValidateSet(set) == set.ns \in {"a", "b"}

\* Source.EmptySet: the template, with every field unset.
EmptySet(src) == [ns |-> src.ns, state |-> "empty"]

\* Source.Get when it succeeds: the populated Set.
GetSet(src) == [ns |-> src.ns, state |-> "populated"]

\* Source.IsSupported
IsSupported(src, repo) == repo \in src.sup

\* The positions of the held sources that support repo.
Supporting(repo) == {i \in 1..Len(reg) : IsSupported(reg[i], repo)}

\* The namespaces of the held sources.
HeldNamespaces == {reg[i].ns : i \in 1..Len(reg)}

\* Register refusing every source whose namespace a held source has.
canRegisterByNamespace(src) ==
    /\ ValidateSet(EmptySet(src))
    /\ src.ns \notin HeldNamespaces

\* registry.Register's checks: the source's Set is valid and the source is
\* not itself in the registry. The held sources are compared with the new
\* one as objects and are not asked for their Sets (Test_registry_Register
\* holds a mock source that expects no call), so a held source that answers
\* as the new one does, namespace and all, does not stand in the way.
canRegister(src) ==
    /\ ValidateSet(EmptySet(src))
    /\ \A i \in 1..Len(reg) : reg[i] # src

\* EmptySets with one Set for every held source.
emptySetsOfAll == [i \in 1..Len(reg) |-> EmptySet(reg[i])]

\* registry.EmptySets: the templates of the held sources in order, a
\* namespace that was seen before being skipped.
emptySets ==
    LET first(i) == \A j \in 1..(i - 1) : reg[j].ns # reg[i].ns
        keep == SelectSeq([i \in 1..Len(reg) |-> i], first)
    IN [k \in 1..Len(keep) |-> EmptySet(reg[keep[k]])]

\* sourcesForRepository without the check for a namespace seen twice.
sourcesForRepositoryUnchecked(repo) ==
    [panic |-> FALSE,
     srcs |-> SelectSeq(reg, LAMBDA src : IsSupported(src, repo))]

\* registry.sourcesForRepository: the held sources that support repo, in
\* order; a second supporting source of a namespace is a panic.
sourcesForRepository(repo) ==
    IF \E i, j \in Supporting(repo) : i # j /\ reg[i].ns = reg[j].ns
    THEN [panic |-> TRUE, srcs |-> <<>>]
    ELSE [panic |-> FALSE,
          srcs |-> SelectSeq(reg, LAMBDA src : IsSupported(src, repo))]

\* Collect returning the Sets of the applicable sources only.
collectApplicableOnly(repo, bad) ==
    IF sourcesForRepository(repo).panic
    THEN [panic |-> TRUE, err |-> "nil", sets |-> <<>>]
    ELSE IF Supporting(repo) = {}
    THEN [panic |-> FALSE, err |-> "ErrUncollectableRepo", sets |-> <<>>]
    ELSE IF Supporting(repo) \cap bad # {}
    THEN [panic |-> FALSE, err |-> "get", sets |-> <<>>]
    ELSE [panic |-> FALSE, err |-> "nil",
          sets |-> [k \in 1..Len(sourcesForRepository(repo).srcs) |->
                        GetSet(sourcesForRepository(repo).srcs[k])]]

\* Collect in the lenient mode: a failed Get is replaced by the template.
collectLenient(repo, bad) ==
    IF sourcesForRepository(repo).panic
    THEN [panic |-> TRUE, err |-> "nil", sets |-> <<>>]
    ELSE IF Supporting(repo) = {}
    THEN [panic |-> FALSE, err |-> "ErrUncollectableRepo", sets |-> <<>>]
    ELSE [panic |-> FALSE, err |-> "nil",
          sets |-> [i \in 1..Len(reg) |->
                        IF i \in Supporting(repo) /\ i \notin bad
                        THEN GetSet(reg[i])
                        ELSE EmptySet(reg[i])]]

\* Collect for one repository, Get failing for the sources at the positions
\* bad: the applicable sources are found, a repository no source supports is
\* reported as uncollectable, a failed Get fails the whole repository, and
\* otherwise every held source gives one Set, fetched or the template.
collect(repo, bad) ==
    IF sourcesForRepository(repo).panic
    THEN [panic |-> TRUE, err |-> "nil", sets |-> <<>>]
    ELSE IF Supporting(repo) = {}
    THEN [panic |-> FALSE, err |-> "ErrUncollectableRepo", sets |-> <<>>]
    ELSE IF Supporting(repo) \cap bad # {}
    THEN [panic |-> FALSE, err |-> "get", sets |-> <<>>]
    ELSE [panic |-> FALSE, err |-> "nil",
          sets |-> [i \in 1..Len(reg) |->
                        IF i \in Supporting(repo)
                        THEN GetSet(reg[i])
                        ELSE EmptySet(reg[i])]]

\* newRegistry: no source is held.
InitRegistry ==
    /\ reg = <<>>
    /\ regDirect = FALSE
    /\ regOut = NoOut
    /\ IdleRun
    /\ IdleMain
    /\ IdleIter
    /\ IdleMarker

\* registry.Register(src)
Register ==
    \E src \in Offered :
        /\ canRegister(src) => Len(reg) < MaxSources
        /\ reg' = IF canRegister(src) THEN Append(reg, src) ELSE reg
        /\ regOut' = [NoOut EXCEPT !.op = "Register", !.src = src,
                                   !.panic = ~canRegister(src)]
        /\ UNCHANGED <<regDirect, runVars, mainVars, iterVars, markVars>>

\* The tests' r.ss = append(r.ss, source): a source is put into the registry
\* without Register.
AppendSource ==
    \E src \in Offered :
        /\ Len(reg) < MaxSources
        /\ reg' = Append(reg, src)
        /\ regDirect' = TRUE
        /\ regOut' = [NoOut EXCEPT !.op = "append", !.src = src]
        /\ UNCHANGED <<runVars, mainVars, iterVars, markVars>>

\* registry.EmptySets()
EmptySets ==
    /\ regOut' = [NoOut EXCEPT !.op = "EmptySets", !.sets = emptySets]
    /\ UNCHANGED <<reg, regDirect, runVars, mainVars, iterVars, markVars>>

\* registry.sourcesForRepository(repo)
SourcesForRepository ==
    \E repo \in Repos :
        /\ regOut' = [NoOut EXCEPT !.op = "sourcesForRepository", !.repo = repo,
                                   !.panic = sourcesForRepository(repo).panic,
                                   !.srcs = sourcesForRepository(repo).srcs]
        /\ UNCHANGED <<reg, regDirect, runVars, mainVars, iterVars, markVars>>

\* registry.Collect(ctx, repo, jobID)
Collect ==
    \E repo \in Repos, bad \in SUBSET (1..Len(reg)) :
        /\ regOut' = [NoOut EXCEPT !.op = "Collect", !.repo = repo, !.bad = bad,
                                   !.panic = collect(repo, bad).panic,
                                   !.err = collect(repo, bad).err,
                                   !.sets = collect(repo, bad).sets]
        /\ UNCHANGED <<reg, regDirect, runVars, mainVars, iterVars, markVars>>

NextRegistry ==
    \/ Register
    \/ AppendSource
    \/ EmptySets
    \/ SourcesForRepository
    \/ Collect

SpecRegistry == InitRegistry /\ [][NextRegistry]_vars

\* ------------------------------------------------- inputiter: iterators
\* The bytes of the text a scanner iterator reads.
Bytes == {"a", "b", "\n"}

\* The values of a slice iterator.
Values == {1, 2}

\* The number of bytes the reader delivers: all of them, or those before it
\* fails.
scanAvail == IF itFailAt = -1 THEN Len(itValues) ELSE itFailAt

\* The bytes delivered and not yet consumed.
scanRest == SubSeq(itValues, itPos + 1, scanAvail)

\* The position of the first newline in data, 0 when there is none.
IndexNewline(data) ==
    IF \E j \in 1..Len(data) : data[j] = "\n"
    THEN CHOOSE j \in 1..Len(data) :
            data[j] = "\n" /\ \A k \in 1..(j - 1) : data[k] # "\n"
    ELSE 0

\* bufio.ScanLines on the rest, with nothing more to come after it: a line up
\* to its newline, or the unterminated rest, or no token.
ScanLines(data) ==
    IF IndexNewline(data) > 0
    THEN [ok |-> TRUE, advance |-> IndexNewline(data),
          token |-> SubSeq(data, 1, IndexNewline(data) - 1)]
    ELSE IF data # <<>>
    THEN [ok |-> TRUE, advance |-> Len(data), token |-> data]
    ELSE [ok |-> FALSE, advance |-> 0, token |-> <<>>]

\* scannerIter.Err with a read failure left unreported.
scanErrDropped(rest) == "nil"

\* scannerIter.Err after a Next that found rest: the reader's error once the
\* scanner had to read beyond the bytes delivered, nil otherwise.
scanErr(rest) ==
    IF itFailAt # -1 /\ IndexNewline(rest) = 0 THEN "readErr" ELSE "nil"

\* sliceIter.Next stopping before the last value.
sliceNextStopsEarly == itPos + 1 < Len(itValues)

\* sliceIter.Next: is there a value left?
sliceNext == itPos < Len(itValues)

\* An iterator over a slice, or over the lines of a reader with its closer.
InitIter ==
    /\ \/ /\ itKind = "slice"
          /\ \E n \in 0..MaxItems : itValues \in [1..n -> Values]
          /\ itFailAt = -1
          /\ itItem = 0
          /\ itCloser = [result |-> "nil", calls |-> 0]
       \/ /\ itKind = "scanner"
          /\ \E n \in 0..MaxItems : itValues \in [1..n -> Bytes]
          /\ itFailAt \in -1..Len(itValues)
          /\ itItem = <<>>
          /\ \E res \in {"nil", "closeErr"} : itCloser = [result |-> res, calls |-> 0]
    /\ itPos = 0
    /\ itGot = <<>>
    /\ itLast = "none"
    /\ itErr = "nil"
    /\ itClose = [calls |-> 0, result |-> "nil"]
    /\ IdleRun
    /\ IdleMain
    /\ IdleReg
    /\ IdleMarker

\* sliceIter.Next, and Item when Next is true.
SliceNext ==
    /\ itKind = "slice"
    /\ IF sliceNext
       THEN /\ itPos' = itPos + 1
            /\ itItem' = itValues[itPos + 1]
            /\ itGot' = Append(itGot, itValues[itPos + 1])
            /\ itLast' = "true"
       ELSE /\ itLast' = "false"
            /\ UNCHANGED <<itPos, itItem, itGot>>
    /\ UNCHANGED <<itKind, itValues, itFailAt, itErr, itCloser, itClose>>
    /\ UNCHANGED <<runVars, mainVars, regVars, markVars>>

\* scannerIter.Next, with Err, and Item when Next is true.
ScannerNext ==
    /\ itKind = "scanner"
    /\ itPos' = itPos + ScanLines(scanRest).advance
    /\ itErr' = IF itErr # "nil" THEN itErr ELSE scanErr(scanRest)
    /\ IF ScanLines(scanRest).ok
       THEN /\ itItem' = ScanLines(scanRest).token
            /\ itGot' = Append(itGot, ScanLines(scanRest).token)
            /\ itLast' = "true"
       ELSE /\ itLast' = "false"
            /\ UNCHANGED <<itItem, itGot>>
    /\ UNCHANGED <<itKind, itValues, itFailAt, itCloser, itClose>>
    /\ UNCHANGED <<runVars, mainVars, regVars, markVars>>

\* scannerIter.Close: the closer is closed and its result returned.
ScannerClose ==
    /\ itKind = "scanner"
    /\ itClose.calls < MaxCloses
    /\ itCloser' = [itCloser EXCEPT !.calls = itCloser.calls + 1]
    /\ itClose' = [calls |-> itClose.calls + 1, result |-> itCloser.result]
    /\ UNCHANGED <<itKind, itValues, itFailAt, itPos, itItem, itGot, itLast,
                   itErr>>
    /\ UNCHANGED <<runVars, mainVars, regVars, markVars>>

NextIter ==
    \/ SliceNext
    \/ ScannerNext
    \/ ScannerClose

SpecIter == InitIter /\ [][NextIter]_vars

\* ------------------------------------------------------ marker: the types
\* marker.TypeFull, TypeFile, TypeDir: the first three values of Type.
TypeFull == 0

TypeFile == 1

TypeDir == 2

\* The values a marker.Type is given: the three types and unknown ones.
Types == 0..MaxType

\* The texts UnmarshalText is given.
Texts == {"full", "file", "dir", "notamarker", ""}

\* MarshalText with the names of file and dir exchanged.
marshalTextSwapped(t) ==
    CASE t = TypeFull -> [text |-> "full", err |-> "nil"]
      [] t = TypeFile -> [text |-> "dir", err |-> "nil"]
      [] t = TypeDir -> [text |-> "file", err |-> "nil"]
      [] OTHER -> [text |-> "", err |-> "err"]

\* Type.MarshalText: the name of the type, an error for any other value.
marshalText(t) ==
    CASE t = TypeFull -> [text |-> "full", err |-> "nil"]
      [] t = TypeFile -> [text |-> "file", err |-> "nil"]
      [] t = TypeDir -> [text |-> "dir", err |-> "nil"]
      [] OTHER -> [text |-> "", err |-> "err"]

\* Type.UnmarshalText on the receiver t: the type of the name, or an error
\* with the receiver as it was.
unmarshalText(t, text) ==
    CASE text = "full" -> [type |-> TypeFull, err |-> "nil"]
      [] text = "file" -> [type |-> TypeFile, err |-> "nil"]
      [] text = "dir" -> [type |-> TypeDir, err |-> "nil"]
      [] OTHER -> [type |-> t, err |-> "err"]

\* var got marker.Type
InitMarker ==
    /\ mkT = 0
    /\ mkFrom = 0
    /\ mkText = ""
    /\ mkIn = ""
    /\ mkErr = "nil"
    /\ mkOp = "none"
    /\ IdleRun
    /\ IdleMain
    /\ IdleReg
    /\ IdleIter

\* The variable is given a value, as marker.Type(99999) in the tests.
SetType ==
    \E t \in Types :
        /\ mkT' = t
        /\ mkOp' = "set"
        /\ mkErr' = "nil"
        /\ UNCHANGED <<mkFrom, mkText, mkIn, runVars, mainVars, regVars, iterVars>>

\* got.MarshalText()
MarshalText ==
    /\ mkFrom' = mkT
    /\ mkText' = marshalText(mkT).text
    /\ mkErr' = marshalText(mkT).err
    /\ mkOp' = "MarshalText"
    /\ UNCHANGED <<mkT, mkIn, runVars, mainVars, regVars, iterVars>>

\* got.UnmarshalText(text), for one of the texts or for the text marshalled
\* last.
UnmarshalText ==
    \E text \in Texts \cup {mkText} :
        /\ mkIn' = text
        /\ mkT' = unmarshalText(mkT, text).type
        /\ mkErr' = unmarshalText(mkT, text).err
        /\ mkOp' = "UnmarshalText"
        /\ UNCHANGED <<mkFrom, mkText, runVars, mainVars, regVars, iterVars>>

NextMarker ==
    \/ SetType
    \/ MarshalText
    \/ UnmarshalText

SpecMarker == InitMarker /\ [][NextMarker]_vars

\* ----------------------------------------------------- shared vocabulary
Running == pc \notin {"start", "returned"}

ReturnedNil == pc = "returned" /\ err = "nil"

\* The completion record the finalizing steps of this run write.
MetaRecord == [jobTime |-> s.JobTime, shards |-> s.Shard]

\* The positions after a shard was left and before the next Save.
BetweenShards == pc \in {"loop", "meta1", "meta2", "clear"} \/ (pc = "attempt" /\ s.Attempt = 0)

LastOutcome == IF outcomes = <<>> THEN "none" ELSE outcomes[Len(outcomes)]

\* Shards this run has to move past: from the resume position to the last.
ShardsToDo == IF NumShards > startShard THEN NumShards - startShard ELSE 0

\* ------------------------------------------------------------------ claims

\* C1 (as stated): when the process step of one shard has failed on
\* maxAttempts consecutive attempts, the next step of Run is to return an
\* error, with the shard index not advanced and the state file kept.
C1_HaltsAfterMaxAttempts ==
    [][(pc = "attempt" /\ fails >= maxAttempts /\ restarts' = restarts)
        => (pc' = "returned" /\ err' \notin {"", "nil"} /\ s'.Shard = s.Shard
            /\ ckpt' = ckpt)]_vars

\* C1 (amended): when the process step of one shard has failed on maxAttempts
\* consecutive attempts, Run gives the shard up and moves on: the attempt
\* counter is reset to 0, the shard index is advanced by one, no error is
\* returned and the loop goes on to read the next shard; the step itself
\* leaves the state file and the buckets alone.
C1_MovesOnAfterMaxAttempts ==
    [][(pc = "attempt" /\ fails >= maxAttempts /\ restarts' = restarts)
        => (pc' = "loop" /\ err' = err /\ s'.Shard = s.Shard + 1
            /\ s'.Attempt = 0 /\ s'.JobTime = s.JobTime
            /\ UNCHANGED <<ckpt, produced, meta, rawMeta>>)]_vars

\* C1 witness: a shard failed maxAttempts times, a later shard was handed to
\* the worker, and Run returned nil with the state file cleared.
C1_Witness ==
    /\ ReturnedNil
    /\ ~ckpt.exists
    /\ \E i \in 1..Len(outcomes) :
        /\ outcomes[i] = "failed"
        /\ \E r \in calls : r.shard > startShard + i - 1

\* C2: in a run resumed from a state file with shard index S > 0, the worker
\* is never handed a shard with an index below S-1, and the first request
\* built carries shard index S and the identifiers of the input's shard S.
C2_ResumeAligned ==
    (Running /\ startShard > 0)
        => /\ \A r \in calls : r.shard >= startShard - 1
           /\ built # <<>> =>
                /\ built[1].shard = startShard
                /\ built[1].ids = ShardOf(startShard)
                /\ built[1].ids # <<>>

\* C2 witness: a resumed run has built a request and handed it to the worker.
C2_Witness ==
    /\ startShard > 0
    /\ built # <<>>
    /\ built[1] \in calls

\* C3: when Run has returned nil, the state file is gone and both buckets
\* hold the completion record of this job: same job time, same shard count.
C3_CompletionRecorded ==
    ReturnedNil
        => /\ ~ckpt.exists
           /\ MetaRecord \in meta
           /\ MetaRecord \in rawMeta
           /\ \A m \in meta, r \in rawMeta :
                (m.jobTime = s.JobTime /\ r.jobTime = s.JobTime) => m = r

\* C3 witness: Run returned nil after moving past at least one shard.
C3_Witness ==
    /\ ReturnedNil
    /\ outcomes # <<>>
    /\ meta # {}

\* C4 (as stated): when Run has returned nil, the process step succeeded for
\* every shard the run had to handle.
C4_NoPartialSuccess ==
    ReturnedNil
        => /\ Len(outcomes) = ShardsToDo
           /\ \A i \in 1..Len(outcomes) : outcomes[i] = "ok"

\* C4 (amended): when Run has returned nil, every shard from the resume
\* position on was left either after a successful process step or with the
\* attempt counter at maxAttempts (given up, which is no error); none was
\* left earlier than that.
C4_OkOrGivenUp ==
    ReturnedNil
        => /\ Len(outcomes) = ShardsToDo
           /\ \A i \in 1..Len(outcomes) :
                outcomes[i] \in {"ok", "failed", "exhausted", "passed"}

\* C4 witness: Run returned nil although one shard was passed over without an
\* attempt and another was processed.
C4_Witness ==
    /\ ReturnedNil
    /\ \E i, j \in 1..Len(outcomes) : outcomes[i] = "passed" /\ outcomes[j] = "ok"

\* C5 (as stated): the worker is only ever about to process a request whose
\* result does not exist in the destination, and over all retries, crashes
\* and re-runs the output of a shard is produced at most once: no result is
\* produced a second time and no shard has results under two job times.
C5_ShardProducedOnce ==
    /\ pc = "work" => ~resultExists(req)
    /\ \A k \in DOMAIN produced : produced[k] <= 1
    /\ \A k1, k2 \in DOMAIN produced : k1[2] = k2[2] => k1 = k2

\* C5 (amended): the worker is only ever about to process a request whose
\* result does not exist in the destination, and no result is produced a
\* second time: over the retries and crashes of one job the output of a
\* shard is produced at most once. (A result is the result of a job time and
\* a shard: a run that finds no state file, as the re-run of a completed job
\* does, has a new job time and produces the shards again.)
C5_ProcessedOnce ==
    /\ pc = "work" => ~resultExists(req)
    /\ \A k \in DOMAIN produced : produced[k] <= 1

\* C5 witness: the result of the current request exists, the process step
\* succeeded and the worker was not handed the request in this run.
C5_Witness ==
    /\ pc = "post"
    /\ resultExists(req)
    /\ req \notin calls

\* C6 (as stated): the saved attempt count of the shard the state file names
\* is at least the number of attempts started on it and exceeds the number of
\* attempts finished by at most one.
C6_CountedWithinOne ==
    ckpt.exists
        => /\ ckpt.Attempt - att.base >= att.started
           /\ ckpt.Attempt - att.base - att.finished <= 1

\* C6 (amended): while an attempt is under way the state file holds the
\* counted attempt; the saved attempt count is at least the number of attempts
\* started, and exceeds the number of attempts finished by at most one plus
\* the number of attempts that a crash cut off after their save.
C6_CountedBeforeWork ==
    /\ pc \in {"check", "work"} => (ckpt = Saved(s) /\ s.Attempt >= 1)
    /\ ckpt.exists
        => /\ ckpt.Attempt - att.base >= att.started
           /\ att.started >= att.finished
           /\ ckpt.Attempt - att.base - att.finished <= 1 + att.lost

\* C6 witness: after a crash in the middle of an attempt the next attempt is
\* under way, so two saved attempts are not finished.
C6_Witness ==
    /\ pc = "work"
    /\ att.lost = 1
    /\ ckpt.Attempt - att.base - att.finished = 2

\* C7 (as stated): once a shard was processed successfully, the state file
\* holds the advanced shard index and attempt 0 before the loop goes on.
C7_SavedAfterSuccess ==
    (BetweenShards /\ LastOutcome = "ok") => ckpt = Saved(s)

\* C7 (amended): once a shard was processed successfully, the attempt counter
\* is 0 and the shard index advanced in memory only; until the next attempt
\* is saved the state file still names the finished shard with its attempt
\* count (at least 1), so a restart begins at the finished shard.
C7_SavedBeforeNextAttempt ==
    (BetweenShards /\ LastOutcome = "ok")
        => /\ s.Attempt = 0
           /\ ckpt.exists
           /\ ckpt.Shard = s.Shard - 1
           /\ ckpt.Attempt \in 1..maxAttempts
           /\ ckpt.JobTime = s.JobTime

\* C7 witness: after a restart the run is at the shard it resumed from, whose
\* result exists, with the attempt count carried on from the state file.
C7_Witness ==
    /\ restarts > 0
    /\ pc = "check"
    /\ s.Shard = startShard
    /\ resultExists(req)
    /\ s.Attempt >= 2

\* C8: the state file is removed only by the last step of Run, after the
\* completion record went to the primary and then to the raw bucket; every
\* other step of the finalizing phase, a failed write and a crash included,
\* leaves the state file as it is, and the next run starts from its shard.
C8_ClearIsLast ==
    [][/\ (ckpt.exists /\ ~ckpt'.exists)
            => (pc = "clear" /\ pc' = "returned" /\ err' = "nil"
                /\ MetaRecord \in meta /\ MetaRecord \in rawMeta)
       /\ (pc = "meta2" \/ pc = "clear") => MetaRecord \in meta
       /\ pc = "clear" => MetaRecord \in rawMeta
       /\ (pc \in {"meta1", "meta2", "clear"} /\ ~(pc' = "returned" /\ err' = "nil"))
            => ckpt' = ckpt
       /\ (pc \in {"meta1", "meta2", "clear"} /\ outcomes # <<>>) => ckpt.exists
       /\ (pc = "start" /\ ckpt.exists /\ pc' \in {"restore", "loop"})
            => s'.Shard = ckpt.Shard]_vars

\* C8 witness: the record reached the primary bucket but not the raw one, and
\* the run started after that resumes from the shard of the state file.
C8_Witness ==
    /\ restarts > 0
    /\ pc = "restore"
    /\ ckpt.exists
    /\ s.Shard = ckpt.Shard
    /\ \E m \in meta : m.jobTime = ckpt.JobTime /\ m \notin rawMeta

\* C9 (as stated): a run resumed from shard index S > 0 over an input with
\* fewer than S shards leaves the restore phase only by returning an error.
C9_RestoreMismatchIsFatal ==
    (startShard > 0 /\ NumShards < startShard
        /\ pc \notin {"start", "restore", "restoreCheck"})
        => /\ pc = "returned"
           /\ err \in {"restore state shard mismatch", "restore state iterator"}

\* C10: a failed state file operation ends the run at once: a failed load
\* before any shard is read, a failed Save with the attempt it stood before
\* not made and the state file not written, a failed Clear with an error.
C10_CheckpointErrorsFatal ==
    /\ ioErr = "load"
        => (pc = "returned" /\ err = "loadState" /\ cursor = 0 /\ built = <<>>
            /\ calls = {} /\ outcomes = <<>>)
    /\ ioErr = "save"
        => (pc = "returned" /\ err = "saving state" /\ ckpt # Saved(s)
            /\ Len(built) = Len(outcomes) + 1
            /\ cursor = Min(Len(input), (s.Shard + 1) * shardSize)
            /\ (req \in calls => fails >= 1))
    /\ ioErr = "clear"
        => (pc = "returned" /\ err = "clearing state"
            /\ MetaRecord \in meta /\ MetaRecord \in rawMeta)
    /\ (pc = "returned" /\ err \in {"loadState", "saving state", "clearing state"})
        => ioErr # "none"

\* C10 witness: Save failed on a later attempt of a shard.
C10_Witness ==
    /\ ioErr = "save"
    /\ fails >= 1
    /\ pc = "returned"

\* C11: the job timestamp is fixed for the whole job. A step never changes
\* the JobTime of a state file that stays in place (so a restart from the
\* checkpoint takes the old JobTime up again); while Run runs on a state
\* file, its JobTime is the file's; every request Run has built, for every
\* shard and every retry, carries Run's JobTime; and each completion record
\* written to either bucket carries that JobTime too.
C11_JobTimeFixed ==
    [][/\ (ckpt.exists /\ ckpt'.exists) => ckpt'.JobTime = ckpt.JobTime
       /\ (pc' \notin {"start", "idle"} /\ err' # "loadState" /\ ckpt'.exists)
            => s'.JobTime = ckpt'.JobTime
       /\ \A i \in 1..Len(built') : built'[i].jobTime = s'.JobTime
       /\ \A r \in calls' : r.jobTime = s'.JobTime
       /\ \A m \in (meta' \ meta) \cup (rawMeta' \ rawMeta) : m.jobTime = s.JobTime
       /\ (Running /\ pc' # "start") => s'.JobTime = s.JobTime]_vars

\* A job begun at time 1 is resumed from its checkpoint by a second run (whose
\* own start time is 2), builds a request and writes both records at time 1.
C11_Witness ==
    /\ restarts = 1
    /\ now = 2
    /\ startShard > 0
    /\ pc = "clear"
    /\ built # <<>>
    /\ \A i \in 1..Len(built) : built[i].jobTime = 1
    /\ \E m \in meta : m.jobTime = 1
    /\ \E m \in rawMeta : m.jobTime = 1
    /\ \A m \in meta \cup rawMeta : m.jobTime # 2

\* C13: a successful Collect returns exactly one Set per held source, in
\* registration order: the fetched Set of each source that supports the
\* repository and the empty template of each source that does not, so there
\* are as many Sets as sources.
C13_OneSetPerSource ==
    (regOut.op = "Collect" /\ ~regOut.panic /\ regOut.err = "nil")
        => /\ Len(regOut.sets) = Len(reg)
           /\ \A i \in 1..Len(reg) :
                /\ regOut.sets[i].ns = reg[i].ns
                /\ regOut.sets[i].state = IF regOut.repo \in reg[i].sup
                                          THEN "populated"
                                          ELSE "empty"

\* Sources "a" and "b" were registered and the repository is supported by "a"
\* only: Collect gave the populated "a" Set and the template of "b".
C13_Witness ==
    /\ ~regDirect
    /\ regOut.op = "Collect"
    /\ regOut.err = "nil"
    /\ Len(reg) = 2
    /\ reg[1].ns = "a" /\ regOut.repo \in reg[1].sup
    /\ reg[2].ns = "b" /\ regOut.repo \notin reg[2].sup
    /\ regOut.sets = <<[ns |-> "a", state |-> "populated"],
                       [ns |-> "b", state |-> "empty"]>>

\* C14: Collect is fail-fast. When Get fails for a source that supports the
\* repository, Collect returns an error and no Set, whatever the other
\* sources gave.
C14_FailFast ==
    (/\ regOut.op = "Collect"
     /\ ~regOut.panic
     /\ \E i \in regOut.bad : regOut.repo \in reg[i].sup)
        => regOut.err # "nil" /\ regOut.sets = <<>>

\* Two registered sources support the repository; Get succeeds for the first
\* and fails for the second, and Collect returns the error and nothing else.
C14_Witness ==
    /\ ~regDirect
    /\ regOut.op = "Collect"
    /\ Len(reg) = 2
    /\ regOut.repo \in reg[1].sup \cap reg[2].sup
    /\ regOut.bad = {2}
    /\ regOut.err = "get"
    /\ regOut.sets = <<>>

\* C15 (as stated): Register panics and leaves the registry as it was when
\* the source's namespace is already registered or is not a valid namespace;
\* in every other case it appends the source at the end. So in a registry
\* filled by Register alone all namespaces are valid and pairwise distinct.
C15_RegisterChecksNamespace ==
    [][/\ regOut'.op = "Register"
            => IF \/ regOut'.src.ns \in {"", "!"}
                  \/ \E i \in 1..Len(reg) : reg[i].ns = regOut'.src.ns
               THEN regOut'.panic /\ reg' = reg
               ELSE ~regOut'.panic /\ reg' = reg \o <<regOut'.src>>
       /\ ~regDirect'
            => \A i, j \in 1..Len(reg') :
                /\ reg'[i].ns \notin {"", "!"}
                /\ i # j => reg'[i].ns # reg'[j].ns]_vars

\* C15 (amended): Register panics and leaves the registry as it was when the
\* source itself is already registered or its namespace is not a valid
\* namespace; in every other case, also when a registered source has the
\* same namespace, it appends the source at the end. So in a registry filled
\* by Register alone all namespaces are valid and the sources are pairwise
\* distinct.
C15_RegisterChecksSource ==
    [][/\ regOut'.op = "Register"
            => IF \/ regOut'.src.ns \in {"", "!"}
                  \/ \E i \in 1..Len(reg) : reg[i] = regOut'.src
               THEN regOut'.panic /\ reg' = reg
               ELSE ~regOut'.panic /\ reg' = reg \o <<regOut'.src>>
       /\ ~regDirect'
            => \A i, j \in 1..Len(reg') :
                /\ reg'[i].ns \notin {"", "!"}
                /\ i # j => reg'[i] # reg'[j]]_vars

\* A source is registered, and registering another source that answers as
\* the first does (same namespace, same support) has appended it: the
\* registry holds two sources of one namespace, both put there by Register.
C15_Witness ==
    /\ ~regDirect
    /\ regOut.op = "Register"
    /\ ~regOut.panic
    /\ Len(reg) = 2
    /\ reg[1].ns = reg[2].ns
    /\ reg[1].sup = reg[2].sup
    /\ reg[1] # reg[2]
    /\ regOut.src = reg[2]

\* The first position in the registry of a source of namespace ns.
FirstHeld(ns) == CHOOSE i \in 1..Len(reg) :
                    /\ reg[i].ns = ns
                    /\ \A j \in 1..(i - 1) : reg[j].ns # ns

\* C16: EmptySets returns empty templates, exactly one for each namespace
\* held, ordered as the first sources of the namespaces are in the registry.
C16_EmptySetsOnePerNamespace ==
    regOut.op = "EmptySets"
        => /\ \A k \in 1..Len(regOut.sets) : regOut.sets[k].state = "empty"
           /\ {regOut.sets[k].ns : k \in 1..Len(regOut.sets)} = HeldNamespaces
           /\ \A k, l \in 1..Len(regOut.sets) :
                k < l => /\ regOut.sets[k].ns # regOut.sets[l].ns
                         /\ FirstHeld(regOut.sets[k].ns) < FirstHeld(regOut.sets[l].ns)

\* The registry holds two sources of one namespace: EmptySets returned one
\* Set, the template of that namespace.
C16_Witness ==
    /\ regOut.op = "EmptySets"
    /\ Len(reg) = 2
    /\ reg[1].ns = reg[2].ns
    /\ regOut.sets = <<[ns |-> reg[1].ns, state |-> "empty"]>>

\* C17: sourcesForRepository panics when two held sources that support the
\* repository report the same namespace; otherwise it returns exactly the
\* held sources that support the repository, in registry order, and none
\* when no source supports it.
C17_SupportedSources ==
    regOut.op = "sourcesForRepository"
        => IF \E i, j \in 1..Len(reg) :
                /\ i # j
                /\ regOut.repo \in reg[i].sup \cap reg[j].sup
                /\ reg[i].ns = reg[j].ns
           THEN regOut.panic
           ELSE /\ ~regOut.panic
                /\ Len(regOut.srcs) = Cardinality({i \in 1..Len(reg) : regOut.repo \in reg[i].sup})
                /\ \A k \in 1..Len(regOut.srcs) : regOut.repo \in regOut.srcs[k].sup
                /\ \E idx \in [1..Len(regOut.srcs) -> 1..Len(reg)] :
                    /\ \A k \in 1..Len(regOut.srcs) : regOut.srcs[k] = reg[idx[k]]
                    /\ \A k, l \in 1..Len(regOut.srcs) : k < l => idx[k] < idx[l]

\* Two held sources share a namespace and only the second one supports the
\* repository: it alone is returned, without a panic.
C17_Witness ==
    /\ regOut.op = "sourcesForRepository"
    /\ ~regOut.panic
    /\ Len(reg) = 2
    /\ reg[1].ns = reg[2].ns
    /\ regOut.repo \notin reg[1].sup
    /\ regOut.repo \in reg[2].sup
    /\ regOut.srcs = <<reg[2]>>

\* The identifiers of the first n requests built, one after the other.
RECURSIVE IdsBuilt(_)
IdsBuilt(n) == IF n = 0 THEN <<>> ELSE IdsBuilt(n - 1) \o built[n].ids

\* C18: sharding partitions the input in order. In a run that starts at shard
\* 0, the i-th request built (from 0) has shard index i and holds the
\* identifiers input[i*k+1 .. min((i+1)*k, n)]: every shard but the last has
\* exactly k of them and the last between 1 and k; the requests built so far
\* make up a prefix of the input and, once the loop is left, all of it; the
\* worker is handed built requests only, the one in hand being the last built
\* and every earlier one having been left before.
C18_ShardsPartitionInput ==
    (startShard = 0 /\ Running)
        => /\ Len(built) <= NumShards
           /\ \A i \in 1..Len(built) :
                /\ built[i].shard = i - 1
                /\ Len(built[i].ids) = IF i < NumShards
                                        THEN shardSize
                                        ELSE Len(input) - (NumShards - 1) * shardSize
                /\ Len(built[i].ids) \in 1..shardSize
                /\ \A j \in 1..Len(built[i].ids) :
                        built[i].ids[j] = input[(i - 1) * shardSize + j]
           /\ IdsBuilt(Len(built)) = SubSeq(input, 1, Len(IdsBuilt(Len(built))))
           /\ pc \in {"meta1", "meta2", "clear"}
                => Len(built) = NumShards /\ IdsBuilt(Len(built)) = input
           /\ \A r \in calls : r.shard + 1 \in 1..Len(built) /\ r = built[r.shard + 1]
           /\ pc \in {"attempt", "check", "work", "post"}
                => req = built[Len(built)] /\ Len(outcomes) = Len(built) - 1
           /\ pc = "loop" => Len(outcomes) = Len(built)

\* Three identifiers in shards of two: shard 0 with two identifiers and shard
\* 1 with the last one have both been processed by the worker.
C18_Witness ==
    /\ startShard = 0
    /\ pc = "meta1"
    /\ Len(input) = 3
    /\ shardSize = 2
    /\ Len(built) = 2
    /\ built[1] = [ids |-> <<1, 2>>, shard |-> 0, jobTime |-> s.JobTime]
    /\ built[2] = [ids |-> <<3>>, shard |-> 1, jobTime |-> s.JobTime]
    /\ calls = {built[1], built[2]}

\* The lines of a text: its pieces between newlines, a last piece without a
\* newline included when it is not empty.
RECURSIVE Lines(_)
Lines(text) ==
    IF text = <<>> THEN <<>>
    ELSE IF \E j \in 1..Len(text) : text[j] = "\n"
    THEN LET j == CHOOSE j \in 1..Len(text) :
                    text[j] = "\n" /\ \A k \in 1..(j - 1) : text[k] # "\n"
         IN <<SubSeq(text, 1, j - 1)>> \o Lines(SubSeq(text, j + 1, Len(text)))
    ELSE <<text>>

\* The elements of the iterator's source: the values of the slice, or the
\* lines of the text.
Elements == IF itKind = "slice" THEN itValues ELSE Lines(itValues)

\* C19: iterating with Next and Item yields every element of the source once,
\* in source order, and then Next returns false. What has been got is always
\* the first elements of the source, the item after a true Next is the next
\* of them, and when Next has returned false all of them have been got; on an
\* empty source the first Next returns false.
C19_YieldsEveryElementOnce ==
    (itKind \in {"slice", "scanner"} /\ itFailAt = -1)
        => /\ Len(itGot) <= Len(Elements)
           /\ itGot = SubSeq(Elements, 1, Len(itGot))
           /\ itLast = "none" => itGot = <<>>
           /\ itLast = "true" => itGot # <<>> /\ itItem = Elements[Len(itGot)]
           /\ itLast = "false" => itGot = Elements

\* The two lines of the text "a\nb" have been got and Next has returned false.
C19_Witness ==
    /\ itKind = "scanner"
    /\ itFailAt = -1
    /\ itValues = <<"a", "\n", "b">>
    /\ itGot = <<(<<"a">>), (<<"b">>)>>
    /\ itLast = "false"

\* C20: the scanner iterator reports read failures through Err. When the
\* reader fails, Next returns false once the lines delivered before the
\* failure are got, and Err is then the reader's error; when the input ends
\* without a failure, Err is nil during the iteration and after Next has
\* returned false. Every Close closes the closer exactly once and returns its
\* result.
C20_ErrAndClose ==
    itKind = "scanner"
        => /\ itFailAt = -1 => itErr = "nil"
           /\ itFailAt # -1
                => /\ itGot = SubSeq(Lines(SubSeq(itValues, 1, itFailAt)), 1, Len(itGot))
                   /\ itLast = "false" => itErr = "readErr"
                   /\ itErr \in {"nil", "readErr"}
           /\ itCloser.calls = itClose.calls
           /\ itClose.calls > 0 => itClose.result = itCloser.result

\* The reader failed after the line "a": Next gave it, then returned false
\* with the reader's error in Err, and one Close returned the closer's error.
C20_Witness ==
    /\ itKind = "scanner"
    /\ itValues = <<"a", "\n", "b">>
    /\ itFailAt = 2
    /\ itGot = <<(<<"a">>)>>
    /\ itLast = "false"
    /\ itErr = "readErr"
    /\ itCloser = [result |-> "closeErr", calls |-> 1]
    /\ itClose = [calls |-> 1, result |-> "closeErr"]

\* C21: marker types round-trip through text. MarshalText of full, file and
\* dir returns "full", "file" and "dir" without error, and of any other value
\* an error; UnmarshalText of these names gives the types without error, and
\* of any other text an error; and UnmarshalText of what MarshalText returned
\* for a type gives that type again, whatever the variable held in between.
C21_MarkerRoundTrip ==
    /\ mkOp = "MarshalText"
        => /\ mkT = 0 => mkText = "full" /\ mkErr = "nil"
           /\ mkT = 1 => mkText = "file" /\ mkErr = "nil"
           /\ mkT = 2 => mkText = "dir" /\ mkErr = "nil"
           /\ mkT \notin {0, 1, 2} => mkErr # "nil"
    /\ mkOp = "UnmarshalText"
        => /\ mkIn = "full" => mkT = 0 /\ mkErr = "nil"
           /\ mkIn = "file" => mkT = 1 /\ mkErr = "nil"
           /\ mkIn = "dir" => mkT = 2 /\ mkErr = "nil"
           /\ mkIn \notin {"full", "file", "dir"} => mkErr # "nil"
           /\ (mkIn = mkText /\ mkText # "" /\ mkFrom \in {0, 1, 2}) => mkT = mkFrom

\* The type dir was marshalled to "dir", and unmarshalling that text gave dir
\* again without error.
C21_Witness ==
    /\ mkOp = "UnmarshalText"
    /\ mkFrom = 2
    /\ mkText = "dir"
    /\ mkIn = "dir"
    /\ mkT = 2
    /\ mkErr = "nil"

\* C22: attempt bounding. With a loaded state file whose attempt count is in
\* 0..maxAttempts, the attempt counter stays in 0..maxAttempts, every state
\* file Run writes has an attempt count in 1..maxAttempts, and the process
\* step is started at most maxAttempts times for the shard the state file
\* names, the attempts counted in the loaded file and those made before a
\* crash and after the restart taken together.
C22_AttemptsBounded ==
    [][/\ s'.Attempt \in 0..maxAttempts
       /\ ckpt'.exists => ckpt'.Attempt \in 0..maxAttempts
       /\ (ckpt'.exists /\ ckpt' # ckpt) => ckpt'.Attempt \in 1..maxAttempts
       /\ att'.base + att'.started <= maxAttempts
       /\ fails' <= maxAttempts
       /\ ckpt'.exists => att'.base + att'.started <= ckpt'.Attempt]_vars

\* A shard failed some of its attempts before a crash and the others after the
\* restart; the seventh has failed and no further one is made.
C22_Witness ==
    /\ restarts = 1
    /\ pc = "attempt"
    /\ s.Attempt = maxAttempts
    /\ ckpt.Attempt = maxAttempts
    /\ att.base = 0
    /\ att.started = maxAttempts
    /\ fails \in 1..(maxAttempts - 1)

\* C23 (as stated): in every run, fresh or resumed with a saved attempt count
\* in 0..maxAttempts, no shard is passed over without a process step: every
\* shard the run has moved past had its process step started in this run.
C23_NoShardPassedOver ==
    \A i \in 1..Len(outcomes) : outcomes[i] # "passed"

\* C23 (amended): the run moves past the shards one by one from the resume
\* position on, and every shard it moves past had its process step started
\* at least once in this run, but for the shard at the resume position when
\* the state file was loaded with the attempt count at maxAttempts: that one
\* is passed over with no attempt, and it is the only one. A shard resumed
\* with a lower count is left after a success or with the count at
\* maxAttempts and at least one failed step of this run.
C23_OnlyExhaustedResumePassedOver ==
    [][/\ (Running /\ pc' \notin {"start", "returned"})
            => s'.Shard = startShard' + Len(outcomes')
       /\ \A i \in 1..Len(outcomes') :
            /\ outcomes'[i] \in {"ok", "failed", "exhausted", "passed"}
            /\ i > 1 => outcomes'[i] \in {"ok", "failed"}
       /\ (Len(outcomes') = Len(outcomes) + 1 /\ LastOutcome' = "passed")
            => /\ outcomes = <<>>
               /\ s.Shard = startShard
               /\ ckpt.exists
               /\ ckpt.Shard = startShard
               /\ ckpt.Attempt = maxAttempts
       /\ (Len(outcomes') = Len(outcomes) + 1 /\ LastOutcome' # "passed")
            => (pc = "post" \/ fails >= 1)]_vars

\* A run resumed at shard 1 with the attempt count at maxAttempts has passed
\* shard 1 over without a process step and processed shard 2.
C23_Witness ==
    /\ startShard = 1
    /\ outcomes = <<"passed", "ok">>
    /\ Len(built) = 2
    /\ built[1] \notin calls
    /\ built[2] \in calls

\* The number of shards this run left after a successful process step.
OkOutcomes == Cardinality({i \in 1..Len(outcomes) : outcomes[i] = "ok"})

\* C24: PostProcess is called once for each shard whose process step returned
\* without error (the worker succeeded, or the result existed already), as
\* the next step after that attempt, and it is not called after a failed
\* attempt nor for a shard given up. In every state the calls of the run are
\* as many as the shards the run left after a success; each call leaves one
\* shard; and the shard the state file names gets one call per run at most.
C24_PostProcessAfterSuccess ==
    [][/\ posts' = OkOutcomes'
       /\ att'.posted <= restarts' + 1
       /\ (pc' = "post" /\ pc # "post")
            => /\ fails' = fails
               /\ \/ pc = "check" /\ resultExists(req)
                  \/ pc = "work" /\ resultExists(req)'
       /\ pc = "post" => (posts' = posts + 1 \/ pc' = "start")
       /\ (posts' # posts /\ pc' # "start")
            => /\ pc = "post"
               /\ posts' = posts + 1
               /\ Len(outcomes') = Len(outcomes) + 1
               /\ LastOutcome' = "ok"
               /\ s'.Shard = s.Shard + 1
       /\ (pc = "attempt" /\ pc' = "loop") => posts' = posts]_vars

\* The run skipped shard 0, whose result existed, and called PostProcess for
\* it; it then handed shard 1 to the worker, which failed every time, and
\* gave the shard up with no further call.
C24_Witness ==
    /\ outcomes = <<"ok", "failed">>
    /\ posts = 1
    /\ Len(built) = 2
    /\ built[1] \notin calls
    /\ built[2] \in calls
    /\ pc = "loop"

\* C25: a failed attempt changes only the attempt counter. From the request
\* being built until the shard is left, the shard index, the job time, the
\* request and the input cursor stay as they are and the attempt counter only
\* grows by one per attempt; the step in which an attempt fails changes none
\* of them and leads back to the head of the attempt loop; so every call of
\* the worker for one shard index of a run has the same request, the one
\* built for it, and a run builds one request per shard index.
C25_RetryKeepsRequest ==
    [][/\ (pc \in {"attempt", "check", "work"} /\ pc' \in {"attempt", "check", "work", "post"})
            => /\ s'.Shard = s.Shard
               /\ s'.JobTime = s.JobTime
               /\ s'.Attempt \in {s.Attempt, s.Attempt + 1}
               /\ req' = req
               /\ cursor' = cursor
               /\ built' = built
       /\ (pc \in {"check", "work"} /\ fails' = fails + 1)
            => /\ pc' = "attempt"
               /\ s' = s
               /\ ckpt' = ckpt
               /\ req' = req
               /\ cursor' = cursor
               /\ shard' = shard
       /\ \A r \in calls' : r.shard + 1 - startShard' \in 1..Len(built')
                            /\ r = built'[r.shard + 1 - startShard']
       /\ \A i, j \in 1..Len(built') : built'[i].shard = built'[j].shard => i = j
       /\ pc' \in {"check", "work"} => req' = built'[Len(built')] /\ req'.shard = s'.Shard]_vars

\* The third attempt on a shard is under way after two failed ones: the
\* worker has been called with this very request and with no other.
C25_Witness ==
    /\ pc = "work"
    /\ fails = 2
    /\ s.Attempt = 3
    /\ calls = {req}
    /\ built = <<req>>

\* C26: Run terminates for every finite input, whatever the worker does: an
\* uninterrupted run reaches the state in which Run has returned, nil or an
\* error, also when every process step fails.
C26_RunTerminates ==
    <>(pc = "returned")

\* Run has returned nil over an input of three shards although every
\* process step failed: each shard was given up after maxAttempts failures.
C26_Witness ==
    /\ restarts = 0
    /\ ReturnedNil
    /\ startShard = 0
    /\ Len(input) = 3
    /\ outcomes = <<"failed", "failed", "failed">>
    /\ calls = {built[1], built[2], built[3]}
    /\ produced = <<>>

\* C27: the shard count written in the completion metadata is the number of
\* shards of the input, ceil(n / shardSize), in a fresh run and in a run
\* resumed from a state file over the same input (one that names a shard of
\* this input). In such a run every record written to either bucket carries
\* that count, and once Run is past a write the bucket holds the job's record
\* with it.
C27_MetadataCountsAllShards ==
    [][(startShard' < NumShards' \/ startShard' = 0)
        => /\ \A m \in (meta' \ meta) \cup (rawMeta' \ rawMeta) :
                /\ m.shards = NumShards
                /\ m.shards * shardSize >= Len(input)
                /\ (m.shards - 1) * shardSize < Len(input) \/ Len(input) = 0
           /\ pc' \in {"meta1", "meta2", "clear"} => s'.Shard = NumShards'
           /\ (pc' \in {"meta2", "clear"} \/ ReturnedNil')
                => [jobTime |-> s'.JobTime, shards |-> NumShards'] \in meta'
           /\ (pc' = "clear" \/ ReturnedNil')
                => [jobTime |-> s'.JobTime, shards |-> NumShards'] \in rawMeta']_vars

\* A run resumed at shard 1 of an input of three identifiers in shards of two
\* has returned nil; both buckets hold the record with two shards.
C27_Witness ==
    /\ ReturnedNil
    /\ startShard = 1
    /\ Len(input) = 3
    /\ shardSize = 2
    /\ Len(outcomes) = 1
    /\ [jobTime |-> s.JobTime, shards |-> 2] \in meta
    /\ [jobTime |-> s.JobTime, shards |-> 2] \in rawMeta

\* C12 (as stated): a line for which Collect returns ErrUncollectableRepo is
\* skipped and the loop goes on: when main has returned, every line that
\* collects and writes well and has no failing line before it (an
\* uncollectable one is none) has its row.
C12_UncollectableIsSkipped ==
    mExit = "done"
        => \A i \in 1..Len(mLines) :
            (/\ mLines[i] = "ok"
             /\ \A j \in 1..(i - 1) : mLines[j] \in {"ok", "uncollectable"})
                => \E k \in 1..Len(mRows) : mRows[k] = i

\* The first input line at which the run stops with a failure: its URL does
\* not parse, Collect fails with an error other than ErrUncollectableRepo, or
\* the row cannot be written; one past the last line when there is none.
FirstFailure ==
    IF \E i \in 1..Len(mLines) : mLines[i] \in {"badURL", "collectErr", "writeErr"}
    THEN CHOOSE i \in 1..Len(mLines) :
            /\ mLines[i] \in {"badURL", "collectErr", "writeErr"}
            /\ \A j \in 1..(i - 1) : mLines[j] \notin {"badURL", "collectErr", "writeErr"}
    ELSE Len(mLines) + 1

\* The lines before line n whose repository can be collected and written.
RECURSIVE OkLinesBefore(_)
OkLinesBefore(n) ==
    IF n <= 1 THEN <<>>
    ELSE IF mLines[n - 1] = "ok"
         THEN Append(OkLinesBefore(n - 1), n - 1)
         ELSE OkLinesBefore(n - 1)

\* C28 (as stated): the rows follow the input order, one row for each
\* repository whose Collect succeeds and whose line precedes the first
\* failure; such a failure ends the run with exit status 1 and no row for its
\* line or a later one; a run with no failure ends with all these rows
\* written.
C28_RowsFollowInput ==
    /\ \A k \in 1..Len(mRows) :
        /\ mRows[k] < FirstFailure
        /\ mLines[mRows[k]] = "ok"
        /\ k > 1 => mRows[k - 1] < mRows[k]
    /\ mExit = "exit1" => /\ mPos = FirstFailure
                          /\ mRows = OkLinesBefore(FirstFailure)
    /\ mExit = "done" => /\ FirstFailure = Len(mLines) + 1
                         /\ mRows = OkLinesBefore(FirstFailure)

====
